---- MODULE Spec2Model ----
(***************************************************************************)
(* Model of src/src/login.ts (class Login): the CSRF / login / CAPTCHA /    *)
(* MFA / SID flow.  Every async method invocation is an entry of `calls`    *)
(* (its arguments, its locals and its position); `cur` is the invocation    *)
(* that is executing (0: none); `log` is the sequence of external calls     *)
(* (HTTP requests and CAPTCHA resolutions) issued so far; `result` is the   *)
(* outcome delivered to the direct caller of the top-level invocation.      *)
(* Each action is the code between two awaits of one method.                *)
(***************************************************************************)
EXTENDS Integers, Sequences, FiniteSets, TLC

VARIABLES calls, cur, log, result

vars == <<calls, cur, log, result>>

\* ---------------------------------------------------------------- bounds
\* largest `attempt` argument a direct caller of login() passes
MaxAttemptArg == 7

\* ------------------------------------------------------------ JS values
\* the JavaScript value `undefined` of an optional string argument / field
Undefined == "<undefined>"

\* a test against undefined only
Truthy_OnlyUndefined(s) == s # Undefined

\* JavaScript truthiness of an optional string: undefined and '' are falsy
Truthy(s) == s # Undefined /\ s # ""

\* a default parameter value (x = d) replaces undefined only
DefaultParam(x, d) == IF x = Undefined THEN d ELSE x

\* ------------------------------------------------------------- errors
\* An error value: what `e.response && e.response.body &&
\* e.response.body.errorCode` can see of it.  errorCode is the code as the
\* sequence of its dot-separated segments, << >> when absent or empty.
MkError(name, hasResponse, hasBody, errorCode) ==
  [name |-> name, hasResponse |-> hasResponse, hasBody |-> hasBody,
   errorCode |-> errorCode]

\* new Error(message)
Error(message) == MkError(message, FALSE, FALSE, << >>)

NoError == MkError("", FALSE, FALSE, << >>)

TooManyAttempts == Error("Too many login attempts")
TotpRequired    == Error("TOTP required for MFA login")
SidNull         == Error("Sid returned null")
\* cookies['XSRF-TOKEN'].value with no such cookie, resp.body.arkose_data.blob
\* with no arkose_data: a TypeError of the runtime
TypeError       == Error("TypeError")
\* a request that got no response at all
RequestError    == Error("RequestError")
\* notifyManualCaptcha rejected
CaptchaError    == Error("CaptchaError")

SessionInvalidated ==
  <<"errors", "com", "epicgames", "accountportal", "session_invalidated">>
\* another code that includes the text session_invalidated
SessionInvalidatedOther ==
  <<"errors", "com", "epicgames", "common", "oauth", "session_invalidated", "retry">>
CaptchaInvalid ==
  <<"errors", "com", "epicgames", "accountportal", "captcha_invalid">>
TwoFactorRequired ==
  <<"errors", "com", "epicgames", "common", "two_factor_authentication", "required">>
InvalidCredentials ==
  <<"errors", "com", "epicgames", "account", "invalid_account_credentials">>
\* a code that merely extends the captcha code: not === to it
CaptchaInvalidLonger ==
  <<"errors", "com", "epicgames", "accountportal", "captcha_invalid", "expired">>

ErrorCodes == {SessionInvalidated, SessionInvalidatedOther, CaptchaInvalid,
               TwoFactorRequired, InvalidCredentials, CaptchaInvalidLonger}

\* an HTTP error response with a body carrying errorCode
HTTPError(code) == MkError("HTTPError", TRUE, TRUE, code)

\* errors without the structured shape: no response, a response without a
\* body, a body without errorCode
UnstructuredErrors ==
  {RequestError, MkError("HTTPError", TRUE, FALSE, << >>),
   MkError("HTTPError", TRUE, TRUE, << >>)}

\* every way the credential POST can fail
LoginFailures == {HTTPError(c) : c \in ErrorCodes} \cup UnstructuredErrors

\* ways any other request can fail: without a response, or with a structured
\* error (here one whose code the catch clause of login() would retry on)
RequestFailures == {RequestError, HTTPError(SessionInvalidated)}

\* String.prototype.includes on a code, at the granularity of segments
Includes(code, segment) == \E i \in DOMAIN code : code[i] = segment

\* ------------------------------------------------------ invocations, log
\* one invocation of an async method: arguments, locals, position
BlankCall ==
  [fn |-> "", parent |-> 0, pc |-> "",
   email |-> Undefined, password |-> Undefined, captcha |-> Undefined,
   totp |-> Undefined, blob |-> Undefined, attempt |-> 0,
   error |-> FALSE, code |-> Undefined,
   csrfToken |-> 0, sid |-> Undefined, e |-> NoError, ret |-> Undefined]

\* one external call: the operation, the invocation that issued it, the
\* x-xsrf-token header it carried (0: none; for the CSRF GET the token it
\* fetched), its payload, the error it failed with (NoError: it succeeded)
\* and the value it produced
Event(op, by, tok, data, e, val) ==
  [op |-> op, by |-> by, tok |-> tok, data |-> data, e |-> e, val |-> val]

Ops(op) == {i \in DOMAIN log : log[i].op = op}

\* the server issues a new token with every CSRF response: a token is
\* identified with the ordinal of the GET that fetched it
FreshToken == Cardinality(Ops("GET_CSRF")) + 1

Me == calls[cur]

Running == cur # 0 /\ calls[cur].pc \notin {"returned", "threw"}

At(fn, pc) == cur # 0 /\ calls[cur].fn = fn /\ calls[cur].pc = pc

Goto(pc) == calls' = [calls EXCEPT ![cur].pc = pc]

Throw(e) == calls' = [calls EXCEPT ![cur].pc = "threw", ![cur].e = e]

Return(v) == calls' = [calls EXCEPT ![cur].pc = "returned", ![cur].ret = v]

\* await this.<method>(...): the new invocation runs, the caller waits at pc
Await(pc, callee) ==
  /\ calls' = Append([calls EXCEPT ![cur].pc = pc],
                     [callee EXCEPT !.parent = cur])
  /\ cur' = Len(calls) + 1

Issue(ev) == log' = Append(log, ev)

\* ---------------------------------------------------------------- Init
Init ==
  /\ calls = << >>
  /\ cur = 0
  /\ log = << >>
  /\ result = [status |-> "none", e |-> NoError, ret |-> Undefined]

Idle == cur = 0 /\ calls = << >>

\* ------------------------------------------------------------- getCsrf
\* a response without the cookie yields an undefined token instead of failing
getCsrf_OptionalCookie(next) ==
  \/ \E e \in RequestFailures :
       /\ Issue(Event("GET_CSRF", cur, 0, << >>, e, Undefined))
       /\ Throw(e)
  \/ /\ Issue(Event("GET_CSRF", cur, 0, << >>, NoError, Undefined))
     /\ calls' = [calls EXCEPT ![cur].csrfToken = 0, ![cur].pc = next]
  \/ /\ Issue(Event("GET_CSRF", cur, FreshToken, << >>, NoError, "XSRF-TOKEN"))
     /\ calls' = [calls EXCEPT ![cur].csrfToken = FreshToken, ![cur].pc = next]

\* a nested invocation reuses the token its caller fetched
getCsrf_Cached(next) ==
  IF Me.parent # 0 /\ calls[Me.parent].csrfToken # 0
  THEN /\ log' = log
       /\ calls' = [calls EXCEPT ![cur].csrfToken = calls[Me.parent].csrfToken,
                                 ![cur].pc = next]
  ELSE \/ \E e \in RequestFailures :
            /\ Issue(Event("GET_CSRF", cur, 0, << >>, e, Undefined))
            /\ Throw(e)
       \/ /\ Issue(Event("GET_CSRF", cur, 0, << >>, NoError, Undefined))
          /\ Throw(TypeError)
       \/ /\ Issue(Event("GET_CSRF", cur, FreshToken, << >>, NoError, "XSRF-TOKEN"))
          /\ calls' = [calls EXCEPT ![cur].csrfToken = FreshToken, ![cur].pc = next]

\* getCsrf(), run by the invocation that awaits it: one GET of the CSRF
\* endpoint; the request fails, or the response has no XSRF-TOKEN cookie
\* (reading .value of undefined), or the cookie's value is returned
getCsrf(next) ==
  \/ \E e \in RequestFailures :
       /\ Issue(Event("GET_CSRF", cur, 0, << >>, e, Undefined))
       /\ Throw(e)
  \/ /\ Issue(Event("GET_CSRF", cur, 0, << >>, NoError, Undefined))
     /\ Throw(TypeError)
  \/ /\ Issue(Event("GET_CSRF", cur, FreshToken, << >>, NoError, "XSRF-TOKEN"))
     /\ calls' = [calls EXCEPT ![cur].csrfToken = FreshToken, ![cur].pc = next]

\* ------------------------------------------------------------ loginMFA
\* the seed is not passed on
loginMFACall_NoSeed(totpSecret) ==
  [BlankCall EXCEPT !.fn = "loginMFA", !.pc = "check", !.totp = Undefined]

loginMFACall(totpSecret) ==
  [BlankCall EXCEPT !.fn = "loginMFA", !.pc = "check", !.totp = totpSecret]

\* new TOTP({ secret }).generate(): the code derived from the seed
TOTP(secret) == <<"code", secret>>

\* line 57
loginMFA_check ==
  /\ At("loginMFA", "check")
  /\ IF ~Truthy(Me.totp) THEN Throw(TotpRequired) ELSE Goto("getCsrf")
  /\ UNCHANGED <<cur, log, result>>

\* line 58
loginMFA_getCsrf ==
  /\ At("loginMFA", "getCsrf")
  /\ getCsrf("post")
  /\ UNCHANGED <<cur, result>>

\* the MFA POST is not awaited: its failure is lost
loginMFA_post_NotAwaited ==
  /\ At("loginMFA", "post")
  /\ \/ \E e \in RequestFailures :
          /\ Issue(Event("POST_MFA", cur, Me.csrfToken, TOTP(Me.totp), e, Undefined))
          /\ Return(Undefined)
     \/ /\ Issue(Event("POST_MFA", cur, Me.csrfToken, TOTP(Me.totp), NoError, Undefined))
        /\ Return(Undefined)
  /\ UNCHANGED <<cur, result>>

\* lines 59-71
loginMFA_post ==
  /\ At("loginMFA", "post")
  /\ \/ \E e \in RequestFailures :
          /\ Issue(Event("POST_MFA", cur, Me.csrfToken, TOTP(Me.totp), e, Undefined))
          /\ Throw(e)
     \/ /\ Issue(Event("POST_MFA", cur, Me.csrfToken, TOTP(Me.totp), NoError, Undefined))
        /\ Return(Undefined)
  /\ UNCHANGED <<cur, result>>

\* ---------------------------------------------------------- sendVerify
sendVerifyCall(code) ==
  [BlankCall EXCEPT !.fn = "sendVerify", !.pc = "getCsrf", !.code = code]

\* line 75
sendVerify_getCsrf ==
  /\ At("sendVerify", "getCsrf")
  /\ getCsrf("post")
  /\ UNCHANGED <<cur, result>>

\* lines 76-85
sendVerify_post ==
  /\ At("sendVerify", "post")
  /\ \/ \E e \in RequestFailures :
          /\ Issue(Event("POST_VERIFY", cur, Me.csrfToken, <<Me.code>>, e, Undefined))
          /\ Throw(e)
     \/ /\ Issue(Event("POST_VERIFY", cur, Me.csrfToken, <<Me.code>>, NoError, Undefined))
        /\ Return(Undefined)
  /\ UNCHANGED <<cur, result>>

\* --------------------------------------------------------------- login
\* login(email, password, captcha = '', totp = '', blob?, attempt = 0)
loginCall(email, password, captcha, totp, blob, attempt) ==
  [BlankCall EXCEPT !.fn = "login", !.pc = "getCsrf",
                    !.email = email, !.password = password,
                    !.captcha = DefaultParam(captcha, ""),
                    !.totp = DefaultParam(totp, ""),
                    !.blob = blob, !.attempt = attempt]

\* the attempt limit off by one
TooManyLoginAttempts_OffByOne(attempt) == attempt > 6

\* the attempt limit reached one attempt early
TooManyLoginAttempts_AtFive(attempt) == attempt >= 5

\* the attempt limit never reached
TooManyLoginAttempts_Never(attempt) == FALSE

\* line 98: the attempt limit
TooManyLoginAttempts(attempt) == attempt > 5

\* line 117: e.response && e.response.body && e.response.body.errorCode
HasErrorCode(e) == e.hasResponse /\ e.hasBody /\ e.errorCode # << >>

\* the captcha code matched with includes instead of ===
loginBranch_CaptchaIncludes(e) ==
  IF HasErrorCode(e)
  THEN IF Includes(e.errorCode, "session_invalidated") THEN "retry"
       ELSE IF Includes(e.errorCode, "captcha_invalid") THEN "captcha"
       ELSE IF e.errorCode = TwoFactorRequired THEN "mfa"
       ELSE "fatal"
  ELSE "fatal"

\* a structured error with an unhandled code is retried
loginBranch_RetryUnknown(e) ==
  IF HasErrorCode(e)
  THEN IF Includes(e.errorCode, "session_invalidated") THEN "retry"
       ELSE IF e.errorCode = CaptchaInvalid THEN "captcha"
       ELSE IF e.errorCode = TwoFactorRequired THEN "mfa"
       ELSE "retry"
  ELSE "fatal"

\* lines 117-139: the branch the catch clause takes for the error e
loginBranch(e) ==
  IF HasErrorCode(e)
  THEN IF Includes(e.errorCode, "session_invalidated") THEN "retry"
       ELSE IF e.errorCode = CaptchaInvalid THEN "captcha"
       ELSE IF e.errorCode = TwoFactorRequired THEN "mfa"
       ELSE "fatal"
  ELSE "fatal"

\* the retry after session_invalidated does not count as an attempt
loginRetry_SameAttempt(me) ==
  loginCall(me.email, me.password, me.captcha, me.totp, me.blob, me.attempt)

\* the retry forgets the captcha token
loginRetry_NoCaptcha(me) ==
  loginCall(me.email, me.password, "", me.totp, me.blob, me.attempt + 1)

\* line 120: this.login(email, password, captcha, totp, blob, attempt + 1)
loginRetry(me) ==
  loginCall(me.email, me.password, me.captcha, me.totp, me.blob, me.attempt + 1)

\* the retry after a CAPTCHA does not count as an attempt
loginCaptchaRetry_SameAttempt(me, captchaToken) ==
  loginCall(me.email, me.password, captchaToken, me.totp, me.blob, me.attempt)

\* the retry after a CAPTCHA sends the old captcha again
loginCaptchaRetry_OldCaptcha(me, captchaToken) ==
  loginCall(me.email, me.password, me.captcha, me.totp, me.blob, me.attempt + 1)

\* line 126: this.login(email, password, captchaToken, totp, blob, attempt + 1)
loginCaptchaRetry(me, captchaToken) ==
  loginCall(me.email, me.password, captchaToken, me.totp, me.blob, me.attempt + 1)

\* tokens the CAPTCHA resolver can answer with
CaptchaTokens == {"solved1"}

\* line 97
login_getCsrf ==
  /\ At("login", "getCsrf")
  /\ getCsrf("guard")
  /\ UNCHANGED <<cur, result>>

\* lines 98-100
login_guard ==
  /\ At("login", "guard")
  /\ IF TooManyLoginAttempts(Me.attempt) THEN Throw(TooManyAttempts) ELSE Goto("post")
  /\ UNCHANGED <<cur, log, result>>

\* lines 101-115: the credential POST; a failure enters the catch clause
login_post ==
  /\ At("login", "post")
  /\ LET loginBody == <<Me.email, Me.password, Me.captcha>> IN
     \/ \E e \in LoginFailures :
          /\ Issue(Event("POST_LOGIN", cur, Me.csrfToken, loginBody, e, Undefined))
          /\ calls' = [calls EXCEPT ![cur].pc = "catch", ![cur].e = e]
     \/ /\ Issue(Event("POST_LOGIN", cur, Me.csrfToken, loginBody, NoError, Undefined))
        /\ Return(Undefined)
  /\ UNCHANGED <<cur, result>>

\* lines 116-139: the catch clause, up to its first await
login_catch ==
  /\ At("login", "catch")
  /\ LET branch == loginBranch(Me.e) IN
     \/ /\ branch = "retry"
        /\ Await("awaitLogin", loginRetry(Me))
     \/ /\ branch = "captcha"
        /\ Goto("captcha")
        /\ UNCHANGED cur
     \/ /\ branch = "mfa"
        /\ Await("awaitMFA", loginMFACall(Me.totp))
     \/ /\ branch = "fatal"
        /\ Throw(Me.e)
        /\ UNCHANGED cur
  /\ UNCHANGED <<log, result>>

\* lines 125-126: notifyManualCaptcha(EpicArkosePublicKey.LOGIN, blob), which
\* answers with a token or rejects, then the retry with that token
login_captcha ==
  /\ At("login", "captcha")
  /\ \/ \E captchaToken \in CaptchaTokens :
          /\ Issue(Event("CAPTCHA", cur, 0, <<"LOGIN", Me.blob>>, NoError, captchaToken))
          /\ Await("awaitLogin", loginCaptchaRetry(Me, captchaToken))
     \/ /\ Issue(Event("CAPTCHA", cur, 0, <<"LOGIN", Me.blob>>, CaptchaError, Undefined))
        /\ Throw(CaptchaError)
        /\ UNCHANGED cur
  /\ UNCHANGED result

\* ------------------------------------------------------- refreshAndSid
refreshAndSidCall(error) ==
  [BlankCall EXCEPT !.fn = "refreshAndSid", !.pc = "getCsrf", !.error = error]

\* values of the sid field of the redirect response body
Sids == {Undefined, "", "sid1"}

\* a test against undefined only
SidMissing_OnlyUndefined(sid) == sid = Undefined

\* line 164: !sid
SidMissing(sid) == ~Truthy(sid)

\* line 154
refreshAndSid_getCsrf ==
  /\ At("refreshAndSid", "getCsrf")
  /\ getCsrf("redirect")
  /\ UNCHANGED <<cur, result>>

\* lines 155-167: the redirect GET and the test of its sid
refreshAndSid_redirect ==
  /\ At("refreshAndSid", "redirect")
  /\ \/ \E e \in RequestFailures :
          /\ Issue(Event("GET_REDIRECT", cur, Me.csrfToken, << >>, e, Undefined))
          /\ Throw(e)
     \/ \E sid \in Sids :
          /\ Issue(Event("GET_REDIRECT", cur, Me.csrfToken, << >>, NoError, sid))
          /\ IF SidMissing(sid)
             THEN IF Me.error THEN Throw(SidNull) ELSE Return("false")
             ELSE calls' = [calls EXCEPT ![cur].sid = sid, ![cur].pc = "setSid"]
  /\ UNCHANGED <<cur, result>>

\* lines 168-171
refreshAndSid_setSid ==
  /\ At("refreshAndSid", "setSid")
  /\ \/ \E e \in RequestFailures :
          /\ Issue(Event("GET_SET_SID", cur, 0, <<Me.sid>>, e, Undefined))
          /\ Throw(e)
     \/ /\ Issue(Event("GET_SET_SID", cur, 0, <<Me.sid>>, NoError, Undefined))
        /\ Goto("getStoreToken")
  /\ UNCHANGED <<cur, result>>

\* getStoreToken() is not awaited: refreshAndSid returns true without it
getStoreToken_Skipped ==
  /\ At("refreshAndSid", "getStoreToken")
  /\ Return("true")
  /\ UNCHANGED <<cur, log, result>>

\* lines 172-173 with getStoreToken() (lines 146-150)
getStoreToken ==
  /\ At("refreshAndSid", "getStoreToken")
  /\ \/ \E e \in RequestFailures :
          /\ Issue(Event("GET_STORE", cur, 0, << >>, e, Undefined))
          /\ Throw(e)
     \/ /\ Issue(Event("GET_STORE", cur, 0, << >>, NoError, Undefined))
        /\ Return("true")
  /\ UNCHANGED <<cur, result>>

\* ----------------------------------------------------------- fullLogin
fullLoginCall(email, password, totp) ==
  [BlankCall EXCEPT !.fn = "fullLogin", !.pc = "refresh",
                    !.email = email, !.password = password, !.totp = totp]

\* values of arkose_data.blob in the reputation response body
Blobs == {"blob2"}

\* line 181: await this.refreshAndSid(false)
fullLogin_refresh ==
  /\ At("fullLogin", "refresh")
  /\ Await("awaitRefresh", refreshAndSidCall(FALSE))
  /\ UNCHANGED <<log, result>>

\* line 185 with getReputation() (lines 49-53), and the read of
\* reputation.arkose_data.blob of line 186
getReputation ==
  /\ At("fullLogin", "getReputation")
  /\ \/ \E e \in RequestFailures :
          /\ Issue(Event("GET_REPUTATION", cur, 0, << >>, e, Undefined))
          /\ Throw(e)
     \/ \* a body without arkose_data
        /\ Issue(Event("GET_REPUTATION", cur, 0, << >>, NoError, Undefined))
        /\ Throw(TypeError)
     \/ \E blob \in Blobs :
          /\ Issue(Event("GET_REPUTATION", cur, 0, << >>, NoError, blob))
          /\ calls' = [calls EXCEPT ![cur].blob = blob, ![cur].pc = "login"]
  /\ UNCHANGED <<cur, result>>

\* the blob of the reputation response is not passed on
fullLogin_login_NoBlob ==
  /\ At("fullLogin", "login")
  /\ Await("awaitLogin", loginCall(Me.email, Me.password, "", Me.totp, Undefined, 0))
  /\ UNCHANGED <<log, result>>

\* line 186: await this.login(email, password, '', totp, blob)
fullLogin_login ==
  /\ At("fullLogin", "login")
  /\ Await("awaitLogin", loginCall(Me.email, Me.password, "", Me.totp, Me.blob, 0))
  /\ UNCHANGED <<log, result>>

\* line 187: await this.refreshAndSid(true)
fullLogin_refreshAgain ==
  /\ At("fullLogin", "refreshAgain")
  /\ Await("awaitRefreshAgain", refreshAndSidCall(TRUE))
  /\ UNCHANGED <<log, result>>

\* ------------------------------------------------- completion of awaits
\* a failure of loginMFA is swallowed by login()
Resumed_SwallowMFA(caller, child) ==
  IF child.pc = "threw" /\ child.fn # "loginMFA"
  THEN [caller EXCEPT !.pc = "threw", !.e = child.e]
  ELSE IF caller.fn = "login"
       THEN [caller EXCEPT !.pc = "returned"]
       ELSE IF caller.pc = "awaitRefresh"
            THEN IF child.ret = "true"
                 THEN [caller EXCEPT !.pc = "returned"]
                 ELSE [caller EXCEPT !.pc = "getReputation"]
            ELSE IF caller.pc = "awaitLogin"
                 THEN [caller EXCEPT !.pc = "refreshAgain"]
                 ELSE [caller EXCEPT !.pc = "returned"]

\* the rejection of a nested login() is lost (the retry is not awaited)
Resumed_SwallowRetry(caller, child) ==
  IF child.pc = "threw" /\ ~(caller.fn = "login" /\ child.fn = "login")
  THEN [caller EXCEPT !.pc = "threw", !.e = child.e]
  ELSE IF caller.fn = "login"
       THEN [caller EXCEPT !.pc = "returned"]
       ELSE IF caller.pc = "awaitRefresh"
            THEN IF child.ret = "true"
                 THEN [caller EXCEPT !.pc = "returned"]
                 ELSE [caller EXCEPT !.pc = "getReputation"]
            ELSE IF caller.pc = "awaitLogin"
                 THEN [caller EXCEPT !.pc = "refreshAgain"]
                 ELSE [caller EXCEPT !.pc = "returned"]

\* fullLogin() ignores the result of its first refreshAndSid
Resumed_AlwaysFresh(caller, child) ==
  IF child.pc = "threw"
  THEN [caller EXCEPT !.pc = "threw", !.e = child.e]
  ELSE IF caller.fn = "login"
       THEN [caller EXCEPT !.pc = "returned"]
       ELSE IF caller.pc = "awaitRefresh"
            THEN [caller EXCEPT !.pc = "getReputation"]
            ELSE IF caller.pc = "awaitLogin"
                 THEN [caller EXCEPT !.pc = "refreshAgain"]
                 ELSE [caller EXCEPT !.pc = "returned"]

\* the caller after the invocation it awaits has settled.  No await of a
\* method is inside a try block (the try of line 107 covers the POST only),
\* so a rejection rejects the caller with the same error.
Resumed(caller, child) ==
  IF child.pc = "threw"
  THEN [caller EXCEPT !.pc = "threw", !.e = child.e]
  ELSE IF caller.fn = "login"
       \* lines 120, 126, 131: nothing follows the await
       THEN [caller EXCEPT !.pc = "returned"]
       ELSE IF caller.pc = "awaitRefresh"
            \* lines 181-184
            THEN IF child.ret = "true"
                 THEN [caller EXCEPT !.pc = "returned"]
                 ELSE [caller EXCEPT !.pc = "getReputation"]
            ELSE IF caller.pc = "awaitLogin"
                 THEN [caller EXCEPT !.pc = "refreshAgain"]
                 \* lines 187-189
                 ELSE [caller EXCEPT !.pc = "returned"]

\* what the direct caller of the top-level invocation receives
Settled(call) ==
  IF call.pc = "threw"
  THEN [status |-> "rejected", e |-> call.e, ret |-> Undefined]
  ELSE [status |-> "resolved", e |-> NoError, ret |-> call.ret]

\* a nested invocation settles: its caller resumes
Resume ==
  /\ cur # 0
  /\ Me.pc \in {"returned", "threw"}
  /\ Me.parent # 0
  /\ cur' = Me.parent
  /\ calls' = [calls EXCEPT ![Me.parent] = Resumed(calls[Me.parent], Me)]
  /\ UNCHANGED <<log, result>>

\* the top-level invocation settles
Settle ==
  /\ cur # 0
  /\ Me.pc \in {"returned", "threw"}
  /\ Me.parent = 0
  /\ cur' = 0
  /\ result' = Settled(Me)
  /\ UNCHANGED <<calls, log>>

\* ------------------------------------------------------ top-level calls
Emails == {"user@example.com"}
Passwords == {"hunter2"}
Totps == {Undefined, "", "SEED"}
Codes == {"123456"}
\* the optional arguments <<captcha, totp, blob>> of a direct call of login():
\* all left out, or all given
LoginArgs == {<<Undefined, Undefined, Undefined>>, <<"c0", "SEED", "blob1">>}

Start(call) ==
  /\ calls' = <<call>>
  /\ cur' = 1
  /\ UNCHANGED <<log, result>>

CallLogin ==
  /\ Idle
  /\ \E email \in Emails, password \in Passwords, args \in LoginArgs,
        attempt \in 0..MaxAttemptArg :
       Start(loginCall(email, password, args[1], args[2], args[3], attempt))

CallLoginMFA ==
  /\ Idle
  /\ \E totp \in Totps : Start(loginMFACall(totp))

CallSendVerify ==
  /\ Idle
  /\ \E code \in Codes : Start(sendVerifyCall(code))

CallRefreshAndSid ==
  /\ Idle
  /\ \E error \in BOOLEAN : Start(refreshAndSidCall(error))

CallFullLogin ==
  /\ Idle
  /\ \E email \in Emails, password \in Passwords, totp \in {Undefined, "SEED"} :
       Start(fullLoginCall(email, password, totp))

Next ==
  \/ CallLogin \/ CallLoginMFA \/ CallSendVerify \/ CallRefreshAndSid
  \/ CallFullLogin
  \/ loginMFA_check \/ loginMFA_getCsrf \/ loginMFA_post
  \/ sendVerify_getCsrf \/ sendVerify_post
  \/ login_getCsrf \/ login_guard \/ login_post \/ login_catch \/ login_captcha
  \/ refreshAndSid_getCsrf \/ refreshAndSid_redirect \/ refreshAndSid_setSid
  \/ getStoreToken
  \/ fullLogin_refresh \/ getReputation \/ fullLogin_login
  \/ fullLogin_refreshAgain
  \/ Resume \/ Settle

Spec == Init /\ [][Next]_vars

TypeOK ==
  /\ cur \in 0..Len(calls)
  /\ result.status \in {"none", "resolved", "rejected"}

\* =============================================================== claims
IsSettled(i) == calls[i].pc \in {"returned", "threw"}

\* the external calls an invocation issued itself
OpsBy(i, op) == {k \in DOMAIN log : log[k].by = i /\ log[k].op = op}

EventsBy(i) == {k \in DOMAIN log : log[k].by = i}

\* the invocations an invocation started
Children(i) == {j \in DOMAIN calls : calls[j].parent = i}

\* login() invocations called with attempt > 5
OverLimit == {i \in DOMAIN calls : calls[i].fn = "login" /\ calls[i].attempt > 5}

\* C1 as stated: every login() invocation with attempt > 5 issues no
\* credential POST and, once settled, has failed with 'Too many login
\* attempts'.
C1_AsStated ==
  \A i \in OverLimit :
    /\ OpsBy(i, "POST_LOGIN") = {}
    /\ IsSettled(i) => calls[i].pc = "threw" /\ calls[i].e = TooManyAttempts

\* C1 amended: every login() invocation with attempt > 5 issues no credential
\* POST and, once settled, has failed: with 'Too many login attempts' when its
\* CSRF fetch returned a token, with the error of the CSRF fetch otherwise.
C1_AttemptLimit ==
  \A i \in OverLimit :
    /\ OpsBy(i, "POST_LOGIN") = {}
    /\ IsSettled(i) =>
         /\ calls[i].pc = "threw"
         /\ \E k \in OpsBy(i, "GET_CSRF") :
              IF log[k].tok # 0 THEN calls[i].e = TooManyAttempts
              ELSE IF log[k].e # NoError THEN calls[i].e = log[k].e
              ELSE calls[i].e = TypeError

\* a nested retry with attempt 6 was rejected with the attempt-limit error
C1_Witness ==
  \E i \in OverLimit :
    /\ calls[i].parent # 0
    /\ calls[i].pc = "threw"
    /\ calls[i].e = TooManyAttempts

\* C2 as stated: a login() invocation with attempt > 5 issues no request at
\* all, neither a CSRF GET nor a credential POST.
C2_AsStated == \A i \in OverLimit : EventsBy(i) = {}

\* C2 amended: the attempt limit is checked after the CSRF fetch and before
\* the credential POST: a login() invocation with attempt > 5 issues exactly
\* one request, the CSRF GET of its first line, and nothing else.
C2_GuardAfterCsrf ==
  \A i \in OverLimit :
    /\ EventsBy(i) = OpsBy(i, "GET_CSRF")
    /\ Cardinality(EventsBy(i)) = IF calls[i].pc = "getCsrf" THEN 0 ELSE 1
    /\ Children(i) = {}

\* a direct call with attempt 7 was rejected after its one CSRF GET
C2_Witness ==
  \E i \in OverLimit :
    /\ calls[i].attempt = 7
    /\ calls[i].pc = "threw"
    /\ calls[i].e = TooManyAttempts
    /\ Cardinality(OpsBy(i, "GET_CSRF")) = 1

\* the login() invocations
Logins == {i \in DOMAIN calls : calls[i].fn = "login"}

\* the login() invocations that are not retries of another one
Roots == {i \in Logins : calls[i].parent = 0 \/ calls[calls[i].parent].fn # "login"}

\* the error an external call that did not deliver failed with
FailureOf(ev) == IF ev.e # NoError THEN ev.e ELSE TypeError

\* the codes login() retries on
RetryableCode(e) ==
  /\ HasErrorCode(e)
  /\ \/ Includes(e.errorCode, "session_invalidated")
     \/ e.errorCode = CaptchaInvalid

\* the credential POSTs never exceed attempt 5 and number at most six
BoundedPosts ==
  /\ \A k \in Ops("POST_LOGIN") : calls[log[k].by].attempt <= 5
  /\ Cardinality(Ops("POST_LOGIN")) <= 6

\* C3 as stated: a login() started with attempt = 0 issues no credential POST
\* at an attempt above 5, at most six in total, and when it has settled after
\* credential POSTs that all failed with a retryable code, it has failed with
\* 'Too many login attempts'.
C3_AsStated ==
  \A r \in Roots : calls[r].attempt = 0 =>
    /\ BoundedPosts
    /\ ( /\ IsSettled(r)
         /\ Ops("POST_LOGIN") # {}
         /\ \A k \in Ops("POST_LOGIN") : RetryableCode(log[k].e) )
       => calls[r].pc = "threw" /\ calls[r].e = TooManyAttempts

\* C3 amended: a login() started with attempt = 0 issues no credential POST
\* at an attempt above 5, at most six in total, and when it has settled after
\* credential POSTs that all failed with a retryable code, it has failed:
\* with 'Too many login attempts' when the chain ended in the seventh
\* invocation (attempt 6) after its CSRF fetch, and otherwise with the error
\* of the CSRF fetch or CAPTCHA resolution that ended the chain.
C3_BoundedRetries ==
  \A r \in Roots : calls[r].attempt = 0 =>
    /\ BoundedPosts
    /\ ( /\ IsSettled(r)
         /\ \A k \in Ops("POST_LOGIN") : RetryableCode(log[k].e) )
       => /\ calls[r].pc = "threw"
          /\ LET last == log[Len(log)] IN
             IF last.op = "GET_CSRF" /\ last.tok # 0
             THEN /\ calls[r].e = TooManyAttempts
                  /\ calls[last.by].attempt = 6
                  /\ Cardinality(Ops("POST_LOGIN")) = 6
             ELSE /\ last.op \in {"GET_CSRF", "CAPTCHA"}
                  /\ calls[r].e = FailureOf(last)
                  /\ calls[r].e # TooManyAttempts

\* six credential POSTs failed with retryable codes and the login() started
\* with attempt = 0 failed with the attempt-limit error
C3_Witness ==
  \E r \in Roots :
    /\ calls[r].attempt = 0
    /\ calls[r].pc = "threw"
    /\ calls[r].e = TooManyAttempts
    /\ Cardinality(Ops("POST_LOGIN")) = 6
    /\ \E k \in Ops("POST_LOGIN") : log[k].e = HTTPError(CaptchaInvalid)

\* the arguments other than captcha and attempt agree
SameCredentials(a, b) ==
  /\ a.email = b.email
  /\ a.password = b.password
  /\ a.totp = b.totp
  /\ a.blob = b.blob

\* C4: when the credential POST of a login() invocation failed with an error
\* code containing session_invalidated, the invocation makes exactly one
\* nested call, a login() with the same email, password, captcha, totp and
\* blob and with attempt + 1, and calls neither the CAPTCHA resolver nor
\* loginMFA.
C4_SessionInvalidatedRetry ==
  \A i \in Logins : \A k \in OpsBy(i, "POST_LOGIN") :
    (HasErrorCode(log[k].e) /\ Includes(log[k].e.errorCode, "session_invalidated"))
    => /\ OpsBy(i, "CAPTCHA") = {}
       /\ Cardinality(Children(i)) = IF calls[i].pc = "catch" THEN 0 ELSE 1
       /\ \A j \in Children(i) :
            /\ calls[j].fn = "login"
            /\ SameCredentials(calls[j], calls[i])
            /\ calls[j].captcha = calls[i].captcha
            /\ calls[j].attempt = calls[i].attempt + 1

\* a login() with a captcha token was retried after session_invalidated
C4_Witness ==
  \E i \in Logins : \E k \in OpsBy(i, "POST_LOGIN") :
    /\ Includes(log[k].e.errorCode, "session_invalidated")
    /\ calls[i].captcha = "c0"
    /\ \E j \in Children(i) : IsSettled(j)

\* C5: when the credential POST of a login() invocation failed with the
\* captcha_invalid code, the invocation calls the CAPTCHA resolver exactly
\* once, right after that POST, with the login site key and its blob, and on
\* the resolver's answer makes exactly one nested login() call with that
\* answer as captcha, attempt + 1 and the other arguments unchanged; and the
\* resolver is called after no other outcome of a POST.
C5_CaptchaRetry ==
  /\ \A i \in Logins : \A k \in OpsBy(i, "POST_LOGIN") :
       log[k].e = HTTPError(CaptchaInvalid) =>
         IF calls[i].pc \in {"catch", "captcha"}
         THEN OpsBy(i, "CAPTCHA") = {} /\ Children(i) = {}
         ELSE /\ OpsBy(i, "CAPTCHA") = {k + 1}
              /\ log[k + 1].data = <<"LOGIN", calls[i].blob>>
              /\ IF log[k + 1].e = NoError
                 THEN /\ Cardinality(Children(i)) = 1
                      /\ \A j \in Children(i) :
                           /\ calls[j].fn = "login"
                           /\ SameCredentials(calls[j], calls[i])
                           /\ calls[j].captcha = log[k + 1].val
                           /\ calls[j].attempt = calls[i].attempt + 1
                 ELSE Children(i) = {} /\ calls[i].pc = "threw"
  /\ \A c \in Ops("CAPTCHA") :
       /\ c > 1
       /\ log[c - 1].op = "POST_LOGIN"
       /\ log[c - 1].by = log[c].by
       /\ log[c - 1].e = HTTPError(CaptchaInvalid)

\* a login() with a blob was retried with the resolver's token
C5_Witness ==
  \E i \in Logins : \E c \in OpsBy(i, "CAPTCHA") :
    /\ calls[i].blob = "blob1"
    /\ log[c].val = "solved1"
    /\ \E j \in Children(i) : calls[j].captcha = "solved1" /\ IsSettled(j)

\* the loginMFA() invocations
MFAs == {m \in DOMAIN calls : calls[m].fn = "loginMFA"}

\* C6: when the credential POST of a login() invocation failed with the
\* two_factor_authentication.required code, the invocation makes exactly one
\* nested call, loginMFA with its totp argument, and no credential POST, no
\* CAPTCHA resolution and no login() call follows, whatever its attempt.
C6_TwoFactorOnce ==
  \A i \in Logins : \A k \in OpsBy(i, "POST_LOGIN") :
    log[k].e = HTTPError(TwoFactorRequired) =>
      /\ Cardinality(Children(i)) = IF calls[i].pc = "catch" THEN 0 ELSE 1
      /\ \A j \in Children(i) :
           calls[j].fn = "loginMFA" /\ calls[j].totp = calls[i].totp
      /\ \A k2 \in Ops("POST_LOGIN") \cup Ops("CAPTCHA") : k2 <= k
      /\ \A j \in Logins : j <= i

\* the code arrived at attempt 5, loginMFA ran with the seed and the
\* top-level call resolved
C6_Witness ==
  /\ result.status = "resolved"
  /\ \E i \in Logins : \E j \in Children(i) :
       /\ calls[i].attempt = 5
       /\ calls[j].fn = "loginMFA"
       /\ calls[j].totp = "SEED"
       /\ calls[j].pc = "returned"

RECURSIVE IsAncestor(_, _)
\* a is on the chain of callers of j
IsAncestor(a, j) ==
  /\ j # 0
  /\ calls[j].parent # 0
  /\ (calls[j].parent = a \/ IsAncestor(a, calls[j].parent))

\* C7: when the loginMFA started by login() has failed, no invocation, no
\* credential POST and no CAPTCHA resolution follows it, no login() has a
\* larger attempt than the one that started it, and every caller up the
\* chain that has settled, and the top-level result, failed with the error
\* of loginMFA.
C7_MFAFailurePropagates ==
  \A m \in MFAs : (calls[m].parent # 0 /\ calls[m].pc = "threw") =>
    LET p == calls[m].parent IN
    /\ \A j \in DOMAIN calls : j <= m
    /\ \A k \in OpsBy(p, "POST_LOGIN") : \A k2 \in DOMAIN log :
         k2 > k => log[k2].by = m /\ log[k2].op \in {"GET_CSRF", "POST_MFA"}
    /\ \A j \in Logins : calls[j].attempt <= calls[p].attempt
    /\ \A a \in DOMAIN calls : (IsAncestor(a, m) /\ IsSettled(a)) =>
         calls[a].pc = "threw" /\ calls[a].e = calls[m].e
    /\ cur = 0 => result.status = "rejected" /\ result.e = calls[m].e

\* the MFA POST of a loginMFA started at attempt 2 failed and the failure
\* reached the direct caller
C7_Witness ==
  /\ cur = 0
  /\ result.status = "rejected"
  /\ \E m \in MFAs :
       /\ calls[m].parent # 0
       /\ calls[calls[m].parent].attempt = 2
       /\ calls[m].pc = "threw"
       /\ \E k \in OpsBy(m, "POST_MFA") : log[k].e = result.e

\* C8: a loginMFA() invocation without a TOTP seed (undefined or '') issues
\* no request and makes no call, and fails with 'TOTP required for MFA
\* login'.
C8_MFARequiresSeed ==
  \A m \in MFAs : calls[m].totp \in {Undefined, ""} =>
    /\ EventsBy(m) = {}
    /\ Children(m) = {}
    /\ calls[m].pc \in {"check", "threw"}
    /\ calls[m].pc = "threw" => calls[m].e = TotpRequired

\* a direct call of loginMFA('') was rejected
C8_Witness ==
  /\ result.status = "rejected"
  /\ result.e = TotpRequired
  /\ calls[1].fn = "loginMFA"
  /\ calls[1].totp = ""

\* the refreshAndSid() invocations
Refreshes == {r \in DOMAIN calls : calls[r].fn = "refreshAndSid"}

\* C9: when the redirect response of a refreshAndSid invocation carries no
\* sid, refreshAndSid(false) has returned false, refreshAndSid(true) has
\* thrown 'Sid returned null', and the invocation issues no request after the
\* redirect GET: neither the set-SID nor the store-homepage request.
C9_MissingSid ==
  \A r \in Refreshes : \A k \in OpsBy(r, "GET_REDIRECT") :
    (log[k].e = NoError /\ log[k].val \in {Undefined, ""}) =>
      /\ IF calls[r].error
         THEN calls[r].pc = "threw" /\ calls[r].e = SidNull
         ELSE calls[r].pc = "returned" /\ calls[r].ret = "false"
      /\ \A k2 \in EventsBy(r) : k2 <= k
      /\ OpsBy(r, "GET_SET_SID") = {} /\ OpsBy(r, "GET_STORE") = {}

\* in one fullLogin, refreshAndSid(false) returned false on an empty sid and
\* refreshAndSid(true) threw on an absent one
C9_Witness ==
  \E r1, r2 \in Refreshes :
    /\ ~calls[r1].error /\ calls[r1].ret = "false"
    /\ \E k \in OpsBy(r1, "GET_REDIRECT") : log[k].val = ""
    /\ calls[r2].error /\ calls[r2].e = SidNull
    /\ \E k \in OpsBy(r2, "GET_REDIRECT") : log[k].val = Undefined
    /\ result.e = SidNull

\* C10: when the first refreshAndSid(false) of a fullLogin() returned true
\* and fullLogin() resumed, fullLogin() has returned, that refreshAndSid is
\* the only invocation it made, and every request was issued by it: no
\* reputation request, credential POST, CAPTCHA resolution or MFA request.
C10_RefreshSkipsLogin ==
  \A f \in DOMAIN calls :
    ( /\ calls[f].fn = "fullLogin"
      /\ calls[f].pc # "awaitRefresh"
      /\ f + 1 \in DOMAIN calls
      /\ calls[f + 1].ret = "true" )
    => /\ calls[f].pc = "returned"
       /\ DOMAIN calls = {f, f + 1}
       /\ \A k \in DOMAIN log :
            /\ log[k].by = f + 1
            /\ log[k].op \in {"GET_CSRF", "GET_REDIRECT", "GET_SET_SID", "GET_STORE"}
       /\ cur = 0 => result.status = "resolved"

\* a fullLogin() resolved after its first refreshAndSid returned true
C10_Witness ==
  /\ result.status = "resolved"
  /\ calls[1].fn = "fullLogin"
  /\ calls[2].ret = "true"

\* the state-changing POSTs
PostOps == {"POST_LOGIN", "POST_MFA", "POST_VERIFY"}

Posts == {k \in DOMAIN log : log[k].op \in PostOps}

\* C11: every state-changing POST (login, MFA, email verification) comes
\* right after a CSRF GET of the same invocation and carries the token that
\* GET fetched in its x-xsrf-token header; no token is carried by two POSTs.
C11_FreshCsrfPerPost ==
  /\ \A k \in Posts :
       /\ k > 1
       /\ log[k - 1].op = "GET_CSRF"
       /\ log[k - 1].by = log[k].by
       /\ log[k - 1].tok # 0
       /\ log[k].tok = log[k - 1].tok
  /\ \A k1, k2 \in Posts : k1 # k2 => log[k1].tok # log[k2].tok

\* two credential POSTs of a retry chain and an MFA POST, each with the
\* token of its own CSRF GET
C11_Witness ==
  \E k1, k2 \in Ops("POST_LOGIN") : \E k3 \in Ops("POST_MFA") :
    /\ k1 < k2 /\ k2 < k3
    /\ log[k2].by # log[k1].by
    /\ log[k1].tok = 1 /\ log[k2].tok = 2 /\ log[k3].tok = 3

\* errors of the credential POST that none of the three branches handles
FatalLoginError(e) ==
  \/ ~HasErrorCode(e)
  \/ /\ ~Includes(e.errorCode, "session_invalidated")
     /\ e.errorCode # CaptchaInvalid
     /\ e.errorCode # TwoFactorRequired

\* C12: when the credential POST of a login() invocation failed with an
\* unhandled code or with an error without a structured body, then after the
\* catch clause the invocation has failed with that same error, made no
\* nested call, and no request or CAPTCHA resolution follows the POST; its
\* callers that have settled, and the top-level result, carry that error.
C12_FatalPropagates ==
  \A i \in Logins : \A k \in OpsBy(i, "POST_LOGIN") :
    (log[k].e # NoError /\ FatalLoginError(log[k].e)) =>
      /\ Children(i) = {}
      /\ Len(log) = k
      /\ \A j \in DOMAIN calls : j <= i
      /\ calls[i].pc \in {"catch", "threw"}
      /\ calls[i].e = log[k].e
      /\ \A a \in DOMAIN calls : (IsAncestor(a, i) /\ IsSettled(a)) =>
           calls[a].pc = "threw" /\ calls[a].e = log[k].e
      /\ cur = 0 => result.status = "rejected" /\ result.e = log[k].e

\* an unhandled code at a nested retry, and a response without errorCode,
\* reached the direct caller
C12_Witness ==
  /\ cur = 0
  /\ result.status = "rejected"
  /\ result.e \in {HTTPError(CaptchaInvalidLonger), MkError("HTTPError", TRUE, TRUE, << >>)}
  /\ \E i \in Logins : calls[i].parent # 0 /\ calls[i].e = result.e
                       /\ OpsBy(i, "POST_LOGIN") # {}

\* an external call that did not deliver what its caller needs, other than
\* the credential POST (whose failures the catch clause of login() receives)
FailedCall(ev) ==
  /\ ev.op # "POST_LOGIN"
  /\ \/ ev.e # NoError
     \/ ev.op = "GET_CSRF" /\ ev.tok = 0
     \/ ev.op = "GET_REPUTATION" /\ ev.val = Undefined

\* C13: nothing is swallowed.  An external call that failed outside the
\* try of login() has made its invocation fail with that error; an
\* invocation that failed has made its caller fail with the same error, and
\* the top-level one has rejected the result with it; a resolved result
\* means that no invocation failed.
C13_NothingSwallowed ==
  /\ \A k \in DOMAIN log : FailedCall(log[k]) =>
       calls[log[k].by].pc = "threw" /\ calls[log[k].by].e = FailureOf(log[k])
  /\ \A j \in DOMAIN calls : (calls[j].pc = "threw" /\ cur # j) =>
       IF calls[j].parent = 0
       THEN result.status = "rejected" /\ result.e = calls[j].e
       ELSE /\ calls[calls[j].parent].pc = "threw"
            /\ calls[calls[j].parent].e = calls[j].e
  /\ result.status = "resolved" => \A j \in DOMAIN calls : calls[j].pc = "returned"
  /\ cur = 0 /\ calls # << >> => result.status # "none"

\* the attempt-limit error of the seventh login() of a fullLogin() reached
\* the caller of fullLogin()
C13_Witness ==
  /\ result.status = "rejected"
  /\ result.e = TooManyAttempts
  /\ calls[1].fn = "fullLogin"
  /\ \E i \in Logins : calls[i].attempt = 6 /\ calls[i].e = TooManyAttempts

\* a direct call of login() within the attempt limit
DirectLogin ==
  /\ calls # << >>
  /\ calls[1].fn = "login"
  /\ calls[1].attempt <= 5

\* C14: a direct login() whose CSRF GET returned a token and whose login
\* endpoint answered no credential POST with a failure has, once settled,
\* returned after exactly two requests, its CSRF GET and one credential POST
\* with that token and its credentials, with no CAPTCHA resolution, no MFA
\* request and no nested call.
C14_FirstPostSucceeds ==
  ( /\ DirectLogin
    /\ IsSettled(1)
    /\ log[1].tok # 0
    /\ \A k \in Ops("POST_LOGIN") : log[k].e = NoError )
  => /\ calls[1].pc = "returned"
     /\ Len(calls) = 1
     /\ Len(log) = 2
     /\ log[1].op = "GET_CSRF" /\ log[1].by = 1
     /\ log[2].op = "POST_LOGIN" /\ log[2].by = 1
     /\ log[2].tok = log[1].tok
     /\ log[2].data = <<calls[1].email, calls[1].password, calls[1].captcha>>
     /\ cur = 0 => result.status = "resolved"

\* login() with the default attempt resolved after the CSRF GET and one POST
C14_Witness ==
  /\ result.status = "resolved"
  /\ DirectLogin
  /\ calls[1].attempt = 0
  /\ Len(log) = 2
  /\ log[2].op = "POST_LOGIN"

\* the k-th credential POST
NthPost(n) ==
  CHOOSE k \in Ops("POST_LOGIN") :
    Cardinality({k2 \in Ops("POST_LOGIN") : k2 <= k}) = n

\* C15: when the first credential POST of a direct login() failed with
\* captcha_invalid and the second succeeded, there are exactly two
\* credential POSTs and exactly one CAPTCHA resolution, the second POST
\* carries the resolver's token as captcha, nothing follows it, and the
\* login(), once settled, has returned.
C15_CaptchaThenSuccess ==
  ( /\ DirectLogin
    /\ Cardinality(Ops("POST_LOGIN")) >= 2
    /\ log[NthPost(1)].e = HTTPError(CaptchaInvalid)
    /\ log[NthPost(2)].e = NoError )
  => /\ Cardinality(Ops("POST_LOGIN")) = 2
     /\ Cardinality(Ops("CAPTCHA")) = 1
     /\ \A c \in Ops("CAPTCHA") :
          /\ NthPost(1) < c /\ c < NthPost(2)
          /\ log[NthPost(2)].data =
               <<calls[1].email, calls[1].password, log[c].val>>
     /\ Len(log) = NthPost(2)
     /\ Len(calls) = 2
     /\ \A j \in DOMAIN calls : calls[j].pc \in {"post", "returned", "awaitLogin"}
     /\ IsSettled(1) => calls[1].pc = "returned"
     /\ cur = 0 => result.status = "resolved"

\* login() resolved after captcha_invalid, one resolution and a second POST
C15_Witness ==
  /\ result.status = "resolved"
  /\ DirectLogin
  /\ Cardinality(Ops("POST_LOGIN")) = 2
  /\ log[NthPost(1)].e = HTTPError(CaptchaInvalid)
  /\ log[NthPost(2)].data[3] = "solved1"

\* fullLogin() is past its first refreshAndSid(false), which returned false
FreshPath ==
  /\ Len(calls) >= 2
  /\ calls[1].fn = "fullLogin"
  /\ calls[1].pc # "awaitRefresh"
  /\ calls[2].ret = "false"

\* every external call of invocation a precedes every one of invocation b
EventsBefore(a, b) == \A k1 \in EventsBy(a), k2 \in EventsBy(b) : k1 < k2

\* C16: on the fresh-login path of fullLogin() the steps are, in this order,
\* one reputation request, login (with the credentials of fullLogin, captcha
\* '', attempt 0 and the blob of the reputation response) and
\* refreshAndSid(true); login starts only after the reputation request
\* succeeded, refreshAndSid(true) only after login returned, and when its
\* redirect response has no sid fullLogin() fails with 'Sid returned null'.
C16_FreshLoginOrder ==
  FreshPath =>
    /\ Cardinality(Ops("GET_REPUTATION")) <= 1
    /\ \A k \in Ops("GET_REPUTATION") :
         /\ log[k].by = 1
         /\ \A k1 \in EventsBy(2) : k1 < k
         /\ FailedCall(log[k]) =>
              Len(calls) = 2 /\ calls[1].pc = "threw" /\ calls[1].e = FailureOf(log[k])
    /\ Len(calls) >= 3 =>
         /\ calls[3].fn = "login" /\ calls[3].parent = 1
         /\ calls[3].email = calls[1].email
         /\ calls[3].password = calls[1].password
         /\ calls[3].captcha = ""
         /\ calls[3].totp = DefaultParam(calls[1].totp, "")
         /\ calls[3].attempt = 0
         /\ \E k \in Ops("GET_REPUTATION") :
              /\ ~FailedCall(log[k])
              /\ calls[3].blob = log[k].val
              /\ \A j \in 3..Len(calls) : \A k2 \in EventsBy(j) : k < k2
         /\ (calls[3].pc = "threw" /\ cur \in {0, 1}) =>
              /\ calls[1].pc = "threw" /\ calls[1].e = calls[3].e
              /\ Refreshes = {2}
    /\ \A r \in Refreshes \ {2} :
         /\ calls[r].error /\ calls[r].parent = 1
         /\ r = Len(calls)
         /\ \A j \in 3..(r - 1) : calls[j].pc = "returned" /\ EventsBefore(j, r)
         /\ \A k \in OpsBy(r, "GET_REDIRECT") :
              (log[k].e = NoError /\ log[k].val \in {Undefined, ""}) =>
                /\ calls[r].e = SidNull
                /\ cur \in {0, 1} => calls[1].pc = "threw" /\ calls[1].e = SidNull
                /\ cur = 0 => result.status = "rejected" /\ result.e = SidNull
    /\ calls[1].pc = "returned" =>
         \E r \in Refreshes \ {2} : calls[r].ret = "true"

\* a fresh login with the reputation blob succeeded after a CAPTCHA retry,
\* the redirect still had no sid, and fullLogin() failed with the sid error
C16_Witness ==
  /\ FreshPath
  /\ result.status = "rejected"
  /\ result.e = SidNull
  /\ Len(calls) >= 5
  /\ calls[3].blob = "blob2"
  /\ calls[3].pc = "returned"
  /\ calls[Len(calls)].fn = "refreshAndSid"

\* every external call returns or fails, and the event loop runs every
\* continuation that is ready: a step that is possible is eventually taken
FairSpec == Spec /\ WF_vars(Next)

\* at most seven login() invocations, with the attempts 0..6 when the first
\* has attempt 0
BoundedDepth ==
  /\ Cardinality(Logins) <= 7
  /\ \A r \in Roots : \A i \in Logins :
       /\ calls[i].attempt >= calls[r].attempt
       /\ calls[r].attempt <= 6 => calls[i].attempt <= 6
       /\ Cardinality(Logins) <= 7 - (IF calls[r].attempt <= 6 THEN calls[r].attempt ELSE 6)

\* C17: a login() that is not a retry of another one terminates: there are
\* never more than seven login() invocations (attempts 0..6), and once it has
\* started it eventually settles, returned or failed.
C17_LoginTerminates ==
  /\ []BoundedDepth
  /\ (Roots # {}) ~> (\A r \in Roots : IsSettled(r))

\* the chain reached its seventh invocation and the first one settled
C17_Witness ==
  /\ Cardinality(Logins) = 7
  /\ \A r \in Roots : IsSettled(r) /\ calls[r].attempt = 0

\* C18: a CSRF fetch that failed (the request failed, or the response had no
\* XSRF-TOKEN cookie) in login(), loginMFA(), sendVerify() or
\* refreshAndSid() is the only external call of that invocation, which has
\* failed with the error of the fetch and made no nested call: no credential
\* POST, MFA POST, verify POST or redirect GET, and in login() no retry, no
\* CAPTCHA resolution and no MFA, whatever error code the failure carries.
C18_CsrfFailureIsFatal ==
  \A k \in Ops("GET_CSRF") : log[k].tok = 0 =>
    LET i == log[k].by IN
    /\ calls[i].fn \in {"login", "loginMFA", "sendVerify", "refreshAndSid"}
    /\ EventsBy(i) = {k}
    /\ Len(log) = k
    /\ Children(i) = {}
    /\ \A j \in DOMAIN calls : j <= i
    /\ calls[i].pc = "threw"
    /\ calls[i].e = FailureOf(log[k])

\* the CSRF fetch of a retry failed with a session_invalidated error body
\* and login() failed with it
C18_Witness ==
  /\ result.status = "rejected"
  /\ result.e = HTTPError(SessionInvalidated)
  /\ \E k \in Ops("GET_CSRF") :
       /\ log[k].e = result.e
       /\ calls[log[k].by].fn = "login"
       /\ calls[log[k].by].attempt = 1

\* the last credential POST
LastPost == CHOOSE k \in Ops("POST_LOGIN") : \A k2 \in Ops("POST_LOGIN") : k2 <= k

\* C19: a login() that is not a retry and has settled has returned exactly
\* when its last credential POST succeeded, or failed with
\* two_factor_authentication.required and was followed by an MFA POST that
\* succeeded; otherwise it has failed.
C19_ReturnsIffLoggedIn ==
  \A r \in Roots : IsSettled(r) =>
    /\ calls[r].pc \in {"returned", "threw"}
    /\ calls[r].pc = "returned" <=>
         /\ Ops("POST_LOGIN") # {}
         /\ \/ log[LastPost].e = NoError
            \/ /\ log[LastPost].e = HTTPError(TwoFactorRequired)
               /\ \E m \in Ops("POST_MFA") : m > LastPost /\ log[m].e = NoError

\* after a retry, login() returned through a successful MFA POST
C19_Witness ==
  /\ Cardinality(Logins) >= 2
  /\ \A r \in Roots : calls[r].pc = "returned"
  /\ log[LastPost].e = HTTPError(TwoFactorRequired)
  /\ \E m \in Ops("POST_MFA") : log[m].e = NoError

\* C20: a fullLogin() that returned has as its last three requests a
\* redirect GET whose response carried a sid, the set-SID request with that
\* sid and the store-homepage request, all successful; and every credential
\* POST of a fullLogin() comes after a redirect response without a sid.
C20_SidBeforeReturn ==
  (calls # << >> /\ calls[1].fn = "fullLogin") =>
    /\ calls[1].pc = "returned" =>
         LET n == Len(log) IN
         /\ n >= 4
         /\ log[n - 2].op = "GET_REDIRECT" /\ log[n - 2].e = NoError
         /\ log[n - 2].val \notin {Undefined, ""}
         /\ log[n - 1].op = "GET_SET_SID" /\ log[n - 1].e = NoError
         /\ log[n - 1].data = <<log[n - 2].val>>
         /\ log[n].op = "GET_STORE" /\ log[n].e = NoError
         /\ log[n - 2].by = log[n - 1].by /\ log[n - 1].by = log[n].by
    /\ \A k \in Ops("POST_LOGIN") :
         \E k0 \in Ops("GET_REDIRECT") :
           k0 < k /\ log[k0].e = NoError /\ log[k0].val \in {Undefined, ""}

\* a fullLogin() returned after a fresh login and the sid exchange
C20_Witness ==
  /\ result.status = "resolved"
  /\ calls[1].fn = "fullLogin"
  /\ Ops("POST_LOGIN") # {}
  /\ log[Len(log)].op = "GET_STORE"
====
